---- MODULE Spec2Model ----
(***************************************************************************)
(* ravenFS frontend: the two pages (segmented "dfs" page, whole-file       *)
(* "nodfs" page) as a state machine.  The React state variables of a page  *)
(* are the model's variables; every async handler is cut at its awaits,    *)
(* one action per stretch of code that runs without suspension.            *)
(*                                                                         *)
(* JS null is the empty sequence Null, a present value x is <<x>>.         *)
(* A percentage is an exact fraction <<numerator, denominator>> in lowest  *)
(* terms (the code computes it in floating point).                         *)
(***************************************************************************)
EXTENDS Integers, Sequences, FiniteSets, TLC

\* ---------------------------------------------------------------- bounds
MaxOps   == 2      \* user operations (submit, delete, download) per run
MaxReads == 2      \* segments the streams of a run deliver in total

\* ---------------------------------------------------------------- values
Null == <<>>
Some(x) == <<x>>

Pipelines == {"dfs", "nodfs"}

\* The records a list response may carry.  The segmented backend reports
\* total_chunks; a record without the field is what the whole-file backend
\* lists.
RecFour == [id |-> 1, filename |-> "a.bin", total_chunks |-> 4]
RecOne  == [id |-> 2, filename |-> "b.bin", total_chunks |-> 1]
RecBare == [id |-> 3, filename |-> "c.bin"]

Listings(p) ==
    IF p = "dfs" THEN {<<>>, <<RecFour, RecOne>>, <<RecFour, RecBare>>}
                 ELSE {<<>>, <<RecBare>>}

\* The files the user can pick in the file input.
Files == {"f1"}

\* Byte segments a stream read may deliver (a zero-length segment included).
Segments == {<<>>, <<1>>, <<2, 3>>}

\* Content-Length as headers.get returns it: null when absent, else the
\* header's text, a string of characters.
HeaderValues == {Null, Some(<<"0">>), Some(<<"x">>), Some(<<"3">>)}

\* Elapsed milliseconds Date.now() - startTime may yield.
Elapsed == {0, 7}

Messages == {"", "Error fetching file list", "Upload failed",
             "Download failed", "Delete failed"}

VARIABLES
    pipeline,          \* which page is mounted
    fileList,          \* useState<FileRecord[]>([])
    selectedFile,      \* useState<File | null>(null)
    uploading,         \* useState<boolean>(false)
    downloadProgress,  \* useState<number[]>([])            (dfs page only)
    downloadingFile,   \* useState<FileRecord | null>(null) (dfs page only)
    downloadTime,      \* useState<number | null>(null)
    errorMessage,      \* useState<string>('')
    mount,             \* the useEffect's fetchFiles call: its position
    up,                \* the handleUploadSubmit call in flight: its position
    dels,              \* handleDelete calls, in click order
    dl,                \* handleDownload calls, in click order
    requests,          \* requests sent so far, per operation
    submits,           \* form submit events dispatched so far
    refreshes          \* the fetchFiles calls: which was started last, what
                       \* it was answered, and the last listing any loaded

vars == <<pipeline, fileList, selectedFile, uploading, downloadProgress,
          downloadingFile, downloadTime, errorMessage, mount, up, dels, dl,
          requests, submits, refreshes>>

\* ------------------------------------------------------- pure functions
Min(a, b) == IF a <= b THEN a ELSE b
Max(a, b) == IF a >= b THEN a ELSE b

RECURSIVE GCD(_, _)
GCD(a, b) == IF b = 0 THEN a ELSE GCD(b, a % b)

\* The fraction n/d (d > 0) in lowest terms.
Frac(n, d) == LET g == GCD(n, d) IN <<n \div g, d \div g>>
Zero == Frac(0, 1)
Hundred == Frac(100, 1)
FracLeq(x, y) == x[1] * y[2] <= y[1] * x[2]

Digits == {"0", "1", "2", "3", "4", "5", "6", "7", "8", "9"}
DigitVal(c) ==
    CASE c = "0" -> 0 [] c = "1" -> 1 [] c = "2" -> 2 [] c = "3" -> 3
      [] c = "4" -> 4 [] c = "5" -> 5 [] c = "6" -> 6 [] c = "7" -> 7
      [] c = "8" -> 8 [] c = "9" -> 9

RECURSIVE Decimal(_)
Decimal(text) ==
    IF text = <<>> THEN 0
    ELSE 10 * Decimal(SubSeq(text, 1, Len(text) - 1)) + DigitVal(text[Len(text)])

\* Number(headers.get('Content-Length')): null and the empty string convert
\* to 0, a string of digits to its value, any other text to NaN.  (Header
\* texts here are digit strings or non-numeric text; signs, exponents, hex
\* and surrounding blanks, which Number also parses, are not among them.)
Number(h) ==
    IF h = Null THEN [nan |-> FALSE, v |-> 0]
    ELSE IF \A i \in 1..Len(h[1]) : h[1][i] \in Digits
         THEN [nan |-> FALSE, v |-> Decimal(h[1])]
         ELSE [nan |-> TRUE, v |-> 0]

TotalSizeNoFallback(h) == Number(h).v

\* Number(...) || 1 : NaN and 0 are falsy.
TotalSize(h) ==
    LET n == Number(h) IN IF n.nan \/ n.v = 0 THEN 1 ELSE n.v

\* fileRecord.total_chunks : undefined (Null) when the record has no such field.
TotalChunks(file) ==
    IF "total_chunks" \in DOMAIN file THEN Some(file.total_chunks) ELSE Null

\* new Array(totalChunks).fill(0) : new Array(undefined) is the one-element
\* array [undefined], new Array(n) has n slots.
InitialProgress(totalChunks) ==
    IF totalChunks = Null THEN <<Zero>>
    ELSE [i \in 1..totalChunks[1] |-> Zero]

OverallProgressUncapped(received, totalSize) ==
    Frac(100 * received, totalSize)

\* Math.min(100, (received / totalSize) * 100)
OverallProgress(received, totalSize) ==
    Frac(Min(100 * totalSize, 100 * received), totalSize)

NewProgressFirstSlot(captured, totalChunks, overallProgress) ==
    LET n == IF totalChunks = Null THEN 0 ELSE totalChunks[1]
    IN [i \in 1..Max(Len(captured), n) |->
           IF i = 1 /\ i <= n THEN overallProgress
           ELSE IF i <= Len(captured) THEN captured[i] ELSE Zero]

\* newProgress = downloadProgress.slice(); for (i < totalChunks) newProgress[i]
\* = Math.min(100, overallProgress).  downloadProgress is the array the
\* handler's closure captured; i < undefined is false; a write past the end
\* of a JS array extends it.
NewProgress(captured, totalChunks, overallProgress) ==
    LET n == IF totalChunks = Null THEN 0 ELSE totalChunks[1]
    IN [i \in 1..Max(Len(captured), n) |->
           IF i <= n THEN (IF FracLeq(Hundred, overallProgress)
                           THEN Hundred ELSE overallProgress)
                     ELSE captured[i]]

\* Uint8Array.prototype.set(chunk, offset)
SetAt(buffer, chunk, offset) ==
    [i \in 1..Len(buffer) |->
        IF offset < i /\ i <= offset + Len(chunk) THEN chunk[i - offset]
        ELSE buffer[i]]

RECURSIVE MergeFrom(_, _, _)
MergeFromFixedOffset(buffer, chunks, offset) ==
    IF chunks = <<>> THEN buffer
    ELSE MergeFrom(SetAt(buffer, Head(chunks), offset), Tail(chunks), offset)

\* mergedBuffer = new Uint8Array(received); for (chunk of chunks)
\* { mergedBuffer.set(chunk, offset); offset += chunk.length }
MergeFrom(buffer, chunks, offset) ==
    IF chunks = <<>> THEN buffer
    ELSE MergeFrom(SetAt(buffer, Head(chunks), offset), Tail(chunks),
                   offset + Len(Head(chunks)))

MergedBuffer(chunks, received) ==
    MergeFrom([i \in 1..received |-> 0], chunks, 0)

\* ------------------------------------------------------------- helpers
\* The user may start another operation (the run's budget is not used up).
MayOperate == submits + Len(dels) + Len(dl) < MaxOps

Bump(op) == requests' = [requests EXCEPT ![op] = @ + 1]

\* A handleDownload call: its position (pc) and its locals.  captured is the
\* downloadProgress array bound in the closure of the render that was clicked,
\* overall the last overallProgress computed (0 before the first segment),
\* published the last array the call passed to setDownloadProgress, reads the
\* number of segments its stream has delivered, ok the response's ok flag
\* (success status), url the state of the object URL the call created
\* ("none" before createObjectURL, "live" after it, "revoked" once released).
NewSession(file, captured) ==
    [pc |-> "fetch", file |-> file, captured |-> captured, ok |-> TRUE,
     hint |-> Null, totalSize |-> 1, chunks |-> <<>>, received |-> 0,
     reads |-> 0,
     overall |-> Zero, published |-> InitialProgress(TotalChunks(file)),
     saved |-> Null, url |-> "none"]

\* The call has returned: its locals are gone; what it last published and
\* what it handed to the user stay on record.  A call that saved has created
\* an object URL (createObjectURL) and never calls revokeObjectURL.
Returned(s, pc, saved) ==
    [NewSession(s.file, <<>>) EXCEPT !.pc = pc, !.published = s.published,
                                     !.reads = s.reads, !.ok = s.ok,
                                     !.saved = saved,
                                     !.url = IF saved = Null THEN "none"
                                                             ELSE "live"]

RECURSIVE Delivered(_)
Delivered(sessions) ==
    IF sessions = <<>> THEN 0
    ELSE Head(sessions).reads + Delivered(Tail(sessions))

\* The streams may deliver another segment (the run's budget is not used up).
MayDeliver == Delivered(dl) < MaxReads

InFlight(s) == s.pc \in {"fetch", "read", "blob"}

\* The callers of fetchFiles: the mount effect, handleUploadSubmit, and the
\* i-th handleDelete call.
MountCaller == 0
UploadCaller == 1
DeleteCaller(i) == 1 + i

\* A caller starts fetchFiles: it is now the call started last, unanswered.
RefreshStarted(caller) ==
    refreshes' = [refreshes EXCEPT !.latest = caller, !.listing = Null]

\* A caller's fetchFiles reaches setFileList(data.files) with `files`.
RefreshLoaded(caller, files) ==
    refreshes' = [refreshes EXCEPT
                     !.listing = IF caller = refreshes.latest THEN Some(files)
                                                              ELSE @,
                     !.loaded = files]

\* ------------------------------------------------------------ fetchFiles
\* catch: console.error; setErrorMessage('Error fetching file list')
FetchFilesFailed ==
    /\ errorMessage' = "Error fetching file list"
    /\ UNCHANGED fileList

FetchFilesLoadedFirstWins(files) ==
    /\ fileList' = IF fileList = <<>> THEN files ELSE fileList
    /\ UNCHANGED errorMessage

FetchFilesLoadedMerges(files) ==
    /\ fileList' = fileList \o files
    /\ UNCHANGED errorMessage

\* setFileList(data.files)
FetchFilesLoaded(files) ==
    /\ fileList' = files
    /\ UNCHANGED errorMessage

\* useEffect(() => { fetchFiles() }, []) : the list request is out at Init.
MountListResponse ==
    /\ mount = "list_fetch"
    /\ \/ mount' = "list_json" /\ UNCHANGED <<fileList, errorMessage>>
       \/ mount' = "done" /\ FetchFilesFailed
    /\ UNCHANGED <<refreshes, pipeline, selectedFile, uploading, downloadProgress,
                   downloadingFile, downloadTime, up, dels, dl, requests,
                   submits>>

MountListJson ==
    /\ mount = "list_json"
    /\ mount' = "done"
    /\ \/ \E files \in Listings(pipeline) :
             FetchFilesLoaded(files) /\ RefreshLoaded(MountCaller, files)
       \/ FetchFilesFailed /\ UNCHANGED refreshes
    /\ UNCHANGED <<pipeline, selectedFile, uploading, downloadProgress,
                   downloadingFile, downloadTime, up, dels, dl, requests,
                   submits>>

\* ------------------------------------------------------------- upload
handleFileChange ==
    /\ \E f \in Files : selectedFile' = Some(f)
    /\ UNCHANGED <<refreshes, pipeline, fileList, uploading, downloadProgress,
                   downloadingFile, downloadTime, errorMessage, mount, up,
                   dels, dl, requests, submits>>

handleUploadSubmitNoGuard ==
    /\ MayOperate
    /\ ~uploading
    /\ submits' = submits + 1
    /\ uploading' = TRUE
    /\ errorMessage' = ""
    /\ up' = "fetch"
    /\ Bump("upload")
    /\ UNCHANGED <<refreshes, pipeline, fileList, selectedFile, downloadProgress,
                   downloadingFile, downloadTime, mount, dels, dl>>

\* Lines 53-60, up to the await of fetch.  The submit button is disabled
\* while uploading.
handleUploadSubmit ==
    /\ MayOperate
    /\ ~uploading
    /\ submits' = submits + 1
    /\ IF selectedFile = Null
       THEN UNCHANGED <<uploading, errorMessage, up, requests>>
       ELSE /\ uploading' = TRUE
            /\ errorMessage' = ""
            /\ up' = "fetch"
            /\ Bump("upload")
    /\ UNCHANGED <<refreshes, pipeline, fileList, selectedFile, downloadProgress,
                   downloadingFile, downloadTime, mount, dels, dl>>

UploadFailedNoFinally ==
    /\ errorMessage' = "Upload failed"
    /\ UNCHANGED uploading
    /\ up' = "idle"

\* catch: setErrorMessage('Upload failed'); finally: setUploading(false)
UploadFailed ==
    /\ errorMessage' = "Upload failed"
    /\ uploading' = FALSE
    /\ up' = "idle"

UploadResponse ==
    /\ up = "fetch"
    /\ \/ up' = "json" /\ UNCHANGED <<uploading, errorMessage>>
       \/ UploadFailed
    /\ UNCHANGED <<refreshes, pipeline, fileList, selectedFile, downloadProgress,
                   downloadingFile, downloadTime, mount, dels, dl, requests,
                   submits>>

UploadJsonRefreshesAnyway ==
    /\ up = "json"
    /\ \/ /\ selectedFile' = Null
          /\ up' = "list_fetch"
          /\ Bump("list")
          /\ RefreshStarted(UploadCaller)
          /\ UNCHANGED <<uploading, errorMessage>>
       \/ /\ UploadFailed
          /\ Bump("list")
          /\ UNCHANGED <<selectedFile, refreshes>>
    /\ UNCHANGED <<pipeline, fileList, downloadProgress, downloadingFile,
                   downloadTime, mount, dels, dl, submits>>

\* await res.json() (line 65) resolves, then lines 67-68 up to the await
\* inside fetchFiles; or it rejects.
UploadJson ==
    /\ up = "json"
    /\ \/ /\ selectedFile' = Null
          /\ up' = "list_fetch"
          /\ Bump("list")
          /\ RefreshStarted(UploadCaller)
          /\ UNCHANGED <<uploading, errorMessage>>
       \/ UploadFailed /\ UNCHANGED <<selectedFile, requests, refreshes>>
    /\ UNCHANGED <<pipeline, fileList, downloadProgress, downloadingFile,
                   downloadTime, mount, dels, dl, submits>>

UploadListResponse ==
    /\ up = "list_fetch"
    /\ \/ up' = "list_json" /\ UNCHANGED <<fileList, errorMessage, uploading>>
       \/ FetchFilesFailed /\ uploading' = FALSE /\ up' = "idle"
    /\ UNCHANGED <<refreshes, pipeline, selectedFile, downloadProgress, downloadingFile,
                   downloadTime, mount, dels, dl, requests, submits>>

UploadListJson ==
    /\ up = "list_json"
    /\ \/ \E files \in Listings(pipeline) :
             FetchFilesLoaded(files) /\ RefreshLoaded(UploadCaller, files)
       \/ FetchFilesFailed /\ UNCHANGED refreshes
    /\ uploading' = FALSE
    /\ up' = "idle"
    /\ UNCHANGED <<pipeline, selectedFile, downloadProgress, downloadingFile,
                   downloadTime, mount, dels, dl, requests, submits>>

\* ------------------------------------------------------------- delete
handleDelete ==
    /\ MayOperate
    /\ \E k \in 1..Len(fileList) :
          dels' = Append(dels, [pc |-> "fetch", id |-> fileList[k].id])
    /\ errorMessage' = ""
    /\ Bump("delete")
    /\ UNCHANGED <<refreshes, pipeline, fileList, selectedFile, uploading,
                   downloadProgress, downloadingFile, downloadTime, mount, up,
                   dl, submits>>

\* catch: setErrorMessage('Delete failed')
DeleteFailed(i) ==
    /\ errorMessage' = "Delete failed"
    /\ dels' = [dels EXCEPT ![i].pc = "failed"]

DeleteResponseOptimistic(i) ==
    /\ dels[i].pc = "fetch"
    /\ \/ /\ dels' = [dels EXCEPT ![i].pc = "json"]
          /\ UNCHANGED <<fileList, errorMessage>>
       \/ /\ DeleteFailed(i)
          /\ fileList' = SelectSeq(fileList, LAMBDA r : r.id # dels[i].id)
    /\ UNCHANGED <<refreshes, pipeline, selectedFile, uploading,
                   downloadProgress, downloadingFile, downloadTime, mount, up,
                   dl, requests, submits>>

\* await fetch (line 146-149) resolves, then `if (!res.ok) throw`, or rejects.
DeleteResponse(i) ==
    /\ dels[i].pc = "fetch"
    /\ \/ dels' = [dels EXCEPT ![i].pc = "json"] /\ UNCHANGED errorMessage
       \/ DeleteFailed(i)
    /\ UNCHANGED <<refreshes, pipeline, fileList, selectedFile, uploading,
                   downloadProgress, downloadingFile, downloadTime, mount, up,
                   dl, requests, submits>>

DeleteJson(i) ==
    /\ dels[i].pc = "json"
    /\ \/ /\ dels' = [dels EXCEPT ![i].pc = "list_fetch"]
          /\ Bump("list")
          /\ RefreshStarted(DeleteCaller(i))
          /\ UNCHANGED errorMessage
       \/ DeleteFailed(i) /\ UNCHANGED <<requests, refreshes>>
    /\ UNCHANGED <<pipeline, fileList, selectedFile, uploading,
                   downloadProgress, downloadingFile, downloadTime, mount, up,
                   dl, submits>>

DeleteListResponse(i) ==
    /\ dels[i].pc = "list_fetch"
    /\ \/ /\ dels' = [dels EXCEPT ![i].pc = "list_json"]
          /\ UNCHANGED <<fileList, errorMessage>>
       \/ FetchFilesFailed /\ dels' = [dels EXCEPT ![i].pc = "done"]
    /\ UNCHANGED <<refreshes, pipeline, selectedFile, uploading, downloadProgress,
                   downloadingFile, downloadTime, mount, up, dl, requests,
                   submits>>

DeleteListJson(i) ==
    /\ dels[i].pc = "list_json"
    /\ \/ \E files \in Listings(pipeline) :
             FetchFilesLoaded(files) /\ RefreshLoaded(DeleteCaller(i), files)
       \/ FetchFilesFailed /\ UNCHANGED refreshes
    /\ dels' = [dels EXCEPT ![i].pc = "done"]
    /\ UNCHANGED <<pipeline, selectedFile, uploading, downloadProgress,
                   downloadingFile, downloadTime, mount, up, dl, requests,
                   submits>>

\* ------------------------------------------- download, segmented page
CatchDownloadSilent == UNCHANGED errorMessage

\* catch: console.error; setErrorMessage('Download failed')
CatchDownload == errorMessage' = "Download failed"

FinallyKeepsProgress ==
    /\ downloadingFile' = Null
    /\ UNCHANGED downloadProgress

\* finally: setDownloadingFile(null); setDownloadProgress([])
FinallyDownload ==
    /\ downloadingFile' = Null
    /\ downloadProgress' = <<>>

handleDownloadKeepsTracked ==
    /\ pipeline = "dfs"
    /\ MayOperate
    /\ \E k \in 1..Len(fileList) :
          LET fileRecord == fileList[k] IN
          /\ IF downloadingFile = Null
             THEN /\ downloadingFile' = Some(fileRecord)
                  /\ downloadProgress' =
                        InitialProgress(TotalChunks(fileRecord))
             ELSE UNCHANGED <<downloadingFile, downloadProgress>>
          /\ dl' = Append(dl, NewSession(fileRecord, downloadProgress))
    /\ downloadTime' = Null
    /\ errorMessage' = ""
    /\ Bump("download")
    /\ UNCHANGED <<refreshes, pipeline, fileList, selectedFile, uploading,
                   mount, up, dels, submits>>

\* Lines 79-90, up to the await of fetch.
handleDownload ==
    /\ pipeline = "dfs"
    /\ MayOperate
    /\ \E k \in 1..Len(fileList) :
          LET fileRecord == fileList[k] IN
          /\ downloadingFile' = Some(fileRecord)
          /\ downloadProgress' = InitialProgress(TotalChunks(fileRecord))
          /\ dl' = Append(dl, NewSession(fileRecord, downloadProgress))
    /\ downloadTime' = Null
    /\ errorMessage' = ""
    /\ Bump("download")
    /\ UNCHANGED <<refreshes, pipeline, fileList, selectedFile, uploading, mount, up,
                   dels, submits>>

\* fetch rejects, or resolves with a response whose body is null.
DownloadOpenFailed(i) ==
    /\ pipeline = "dfs"
    /\ dl[i].pc = "fetch"
    /\ dl' = [dl EXCEPT ![i] = Returned(@, "open_failed", Null)]
    /\ CatchDownload
    /\ FinallyDownload
    /\ UNCHANGED <<refreshes, pipeline, fileList, selectedFile, uploading, downloadTime,
                   mount, up, dels, requests, submits>>

\* fetch resolves with a body: lines 93-97.  response.ok is not consulted.
DownloadOpened(i) ==
    /\ pipeline = "dfs"
    /\ dl[i].pc = "fetch"
    /\ \E ok \in BOOLEAN, h \in HeaderValues :
          dl' = [dl EXCEPT ![i].pc = "read", ![i].ok = ok, ![i].hint = h,
                           ![i].totalSize = TotalSize(h)]
    /\ UNCHANGED <<refreshes, pipeline, fileList, selectedFile, uploading,
                   downloadProgress, downloadingFile, downloadTime,
                   errorMessage, mount, up, dels, requests, submits>>

\* reader.read() resolves { done: false, value }: lines 106-117.
DownloadRead(i) ==
    /\ pipeline = "dfs"
    /\ dl[i].pc = "read"
    /\ MayDeliver
    /\ \E value \in Segments :
          LET s == dl[i]
              received == s.received + Len(value)
              overallProgress == OverallProgress(received, s.totalSize)
              newProgress == NewProgress(s.captured, TotalChunks(s.file),
                                         overallProgress)
          IN /\ dl' = [dl EXCEPT ![i].chunks = Append(@, value),
                                 ![i].received = received,
                                 ![i].reads = @ + 1,
                                 ![i].overall = overallProgress,
                                 ![i].published = newProgress]
             /\ downloadProgress' = newProgress
    /\ UNCHANGED <<refreshes, pipeline, fileList, selectedFile, uploading,
                   downloadingFile, downloadTime, errorMessage, mount, up,
                   dels, requests, submits>>

DownloadReadErrorSavesPartial(i) ==
    /\ pipeline = "dfs"
    /\ dl[i].pc = "read"
    /\ dl' = [dl EXCEPT ![i] =
                Returned(@, "read_failed",
                         Some(MergedBuffer(@.chunks, @.received)))]
    /\ CatchDownload
    /\ FinallyDownload
    /\ UNCHANGED <<refreshes, pipeline, fileList, selectedFile, uploading, downloadTime,
                   mount, up, dels, requests, submits>>

DownloadReadErrorRecordsTime(i) ==
    /\ pipeline = "dfs"
    /\ dl[i].pc = "read"
    /\ dl' = [dl EXCEPT ![i] = Returned(@, "read_failed", Null)]
    /\ \E t \in Elapsed : downloadTime' = Some(t)
    /\ CatchDownload
    /\ FinallyDownload
    /\ UNCHANGED <<refreshes, pipeline, fileList, selectedFile, uploading,
                   mount, up, dels, requests, submits>>

\* reader.read() rejects.
DownloadReadError(i) ==
    /\ pipeline = "dfs"
    /\ dl[i].pc = "read"
    /\ dl' = [dl EXCEPT ![i] = Returned(@, "read_failed", Null)]
    /\ CatchDownload
    /\ FinallyDownload
    /\ UNCHANGED <<refreshes, pipeline, fileList, selectedFile, uploading, downloadTime,
                   mount, up, dels, requests, submits>>

DownloadDoneGuardedCleanup(i) ==
    /\ pipeline = "dfs"
    /\ dl[i].pc = "read"
    /\ \E t \in Elapsed : downloadTime' = Some(t)
    /\ \/ /\ dl' = [dl EXCEPT ![i] =
                      Returned(@, "saved",
                               Some(MergedBuffer(@.chunks, @.received)))]
          /\ UNCHANGED errorMessage
       \/ /\ dl' = [dl EXCEPT ![i] = Returned(@, "save_failed", Null)]
          /\ CatchDownload
    /\ IF downloadingFile = Some(dl[i].file)
       THEN FinallyDownload
       ELSE UNCHANGED <<downloadingFile, downloadProgress>>
    /\ UNCHANGED <<refreshes, pipeline, fileList, selectedFile, uploading,
                   mount, up, dels, requests, submits>>

\* reader.read() resolves { done: true }: lines 119-134, then finally.  The
\* save (buffer allocation, blob, object URL, click) may throw.
DownloadDone(i) ==
    /\ pipeline = "dfs"
    /\ dl[i].pc = "read"
    /\ \E t \in Elapsed : downloadTime' = Some(t)
    /\ \/ /\ dl' = [dl EXCEPT ![i] =
                      Returned(@, "saved",
                               Some(MergedBuffer(@.chunks, @.received)))]
          /\ UNCHANGED errorMessage
       \/ /\ dl' = [dl EXCEPT ![i] = Returned(@, "save_failed", Null)]
          /\ CatchDownload
    /\ FinallyDownload
    /\ UNCHANGED <<refreshes, pipeline, fileList, selectedFile, uploading, mount, up,
                   dels, requests, submits>>

\* ------------------------------------------- download, whole-file page
\* Bodies res.blob() may resolve to.
Bodies == {<<>>, <<1, 2, 3>>}

\* Lines 73-76, up to the await of fetch.
handleDownloadNoDfs ==
    /\ pipeline = "nodfs"
    /\ MayOperate
    /\ \E k \in 1..Len(fileList) : dl' = Append(dl, NewSession(fileList[k], <<>>))
    /\ errorMessage' = ""
    /\ Bump("download")
    /\ UNCHANGED <<refreshes, pipeline, fileList, selectedFile, uploading,
                   downloadProgress, downloadingFile, downloadTime, mount, up,
                   dels, submits>>

NoDfsOpenFailed(i) ==
    /\ pipeline = "nodfs"
    /\ dl[i].pc = "fetch"
    /\ dl' = [dl EXCEPT ![i] = Returned(@, "open_failed", Null)]
    /\ CatchDownload
    /\ UNCHANGED <<refreshes, pipeline, fileList, selectedFile, uploading,
                   downloadProgress, downloadingFile, downloadTime, mount, up,
                   dels, requests, submits>>

\* fetch resolves with a body: line 77.  res.ok is not consulted.
NoDfsOpened(i) ==
    /\ pipeline = "nodfs"
    /\ dl[i].pc = "fetch"
    /\ \E ok \in BOOLEAN : dl' = [dl EXCEPT ![i].pc = "blob", ![i].ok = ok]
    /\ UNCHANGED <<refreshes, pipeline, fileList, selectedFile, uploading,
                   downloadProgress, downloadingFile, downloadTime,
                   errorMessage, mount, up, dels, requests, submits>>

\* res.blob() rejects.
NoDfsBlobError(i) ==
    /\ pipeline = "nodfs"
    /\ dl[i].pc = "blob"
    /\ dl' = [dl EXCEPT ![i] = Returned(@, "read_failed", Null)]
    /\ CatchDownload
    /\ UNCHANGED <<refreshes, pipeline, fileList, selectedFile, uploading,
                   downloadProgress, downloadingFile, downloadTime, mount, up,
                   dels, requests, submits>>

\* res.blob() resolves: lines 79-87.
NoDfsBlob(i) ==
    /\ pipeline = "nodfs"
    /\ dl[i].pc = "blob"
    /\ \E t \in Elapsed : downloadTime' = Some(t)
    /\ \/ /\ \E blob \in Bodies :
                dl' = [dl EXCEPT ![i] = Returned(@, "saved", Some(blob))]
          /\ UNCHANGED errorMessage
       \/ /\ dl' = [dl EXCEPT ![i] = Returned(@, "save_failed", Null)]
          /\ CatchDownload
    /\ UNCHANGED <<refreshes, pipeline, fileList, selectedFile, uploading,
                   downloadProgress, downloadingFile, mount, up, dels,
                   requests, submits>>

\* ------------------------------------------------------- specification
Init ==
    /\ pipeline \in Pipelines
    /\ fileList = <<>>
    /\ selectedFile = Null
    /\ uploading = FALSE
    /\ downloadProgress = <<>>
    /\ downloadingFile = Null
    /\ downloadTime = Null
    /\ errorMessage = ""
    /\ mount = "list_fetch"
    /\ up = "idle"
    /\ dels = <<>>
    /\ dl = <<>>
    /\ requests = [list |-> 1, upload |-> 0, download |-> 0, delete |-> 0]
    /\ submits = 0
    /\ refreshes = [latest |-> MountCaller, listing |-> Null, loaded |-> <<>>]

Next ==
    \/ MountListResponse
    \/ MountListJson
    \/ handleFileChange
    \/ handleUploadSubmit
    \/ UploadResponse
    \/ UploadJson
    \/ UploadListResponse
    \/ UploadListJson
    \/ handleDelete
    \/ \E i \in 1..Len(dels) : DeleteResponse(i)
    \/ \E i \in 1..Len(dels) : DeleteJson(i)
    \/ \E i \in 1..Len(dels) : DeleteListResponse(i)
    \/ \E i \in 1..Len(dels) : DeleteListJson(i)
    \/ handleDownload
    \/ \E i \in 1..Len(dl) : DownloadOpenFailed(i)
    \/ \E i \in 1..Len(dl) : DownloadOpened(i)
    \/ \E i \in 1..Len(dl) : DownloadRead(i)
    \/ \E i \in 1..Len(dl) : DownloadReadError(i)
    \/ \E i \in 1..Len(dl) : DownloadDone(i)
    \/ handleDownloadNoDfs
    \/ \E i \in 1..Len(dl) : NoDfsOpenFailed(i)
    \/ \E i \in 1..Len(dl) : NoDfsOpened(i)
    \/ \E i \in 1..Len(dl) : NoDfsBlobError(i)
    \/ \E i \in 1..Len(dl) : NoDfsBlob(i)

Spec == Init /\ [][Next]_vars

\* Every promise handleUploadSubmit awaits settles: fetch resolves or rejects
\* (the transport's own time limits apply), res.json() resolves or rejects,
\* and so do the awaits inside fetchFiles.
LiveSpec ==
    /\ Spec
    /\ WF_vars(UploadResponse)
    /\ WF_vars(UploadJson)
    /\ WF_vars(UploadListResponse)
    /\ WF_vars(UploadListJson)

\* --------------------------------------------------------------- claims
Sessions == 1..Len(dl)

RECURSIVE Concat(_)
Concat(segs) == IF segs = <<>> THEN <<>> ELSE Head(segs) \o Concat(Tail(segs))

RECURSIVE SumLen(_)
SumLen(segs) == IF segs = <<>> THEN 0 ELSE Len(Head(segs)) + SumLen(Tail(segs))

Ended(i) == i \in Sessions /\ InFlight(dl[i]) /\ ~InFlight(dl'[i])
Completed(i) == i \in Sessions /\ dl[i].pc = "read" /\ dl'[i].pc = "saved"
HasChunkCount(file) == TotalChunks(file) # Null
ChunkCount(file) == TotalChunks(file)[1]

\* C1: on the segmented page every handleDownload call, however it ends
\* (stream end, stream not opened, read error, save failure), ends by setting
\* downloadingFile to null and downloadProgress to []; and whenever no
\* download is in flight both are null / empty.
C1_CleanupOnEveryExit ==
    /\ []((pipeline = "dfs" /\ \A i \in Sessions : ~InFlight(dl[i]))
            => (downloadingFile = Null /\ downloadProgress = <<>>))
    /\ [][\A i \in Sessions :
            (pipeline = "dfs" /\ Ended(i))
              => (downloadingFile' = Null /\ downloadProgress' = <<>>)]_vars

C1_Witness ==
    /\ pipeline = "dfs"
    /\ Len(dl) = 2
    /\ dl[1].pc = "save_failed"
    /\ dl[2].pc = "read_failed"
    /\ downloadingFile = Null

\* C2: a read that throws mid-stream ends the handleDownload call in its
\* catch and finally blocks: the message becomes 'Download failed', the
\* active record is null and the progress array is empty.
C2_ReadErrorHandled ==
    [][\A i \in Sessions :
         (pipeline = "dfs" /\ dl[i].pc = "read" /\ dl'[i].pc = "read_failed")
           => /\ errorMessage' = "Download failed"
              /\ downloadingFile' = Null
              /\ downloadProgress' = <<>>
              /\ ~InFlight(dl'[i])]_vars

C2_Witness ==
    /\ pipeline = "dfs"
    /\ \E i \in Sessions : dl[i].pc = "read_failed"
    /\ errorMessage = "Download failed"
    /\ downloadProgress = <<>>

\* C3: a download that fails to open or whose read fails hands no artifact
\* to the user, on either page; an artifact exists only for a call that
\* reached the save step after the stream ended.
C3_NoPartialArtifact ==
    \A i \in Sessions :
        /\ dl[i].pc \in {"open_failed", "read_failed"} => dl[i].saved = Null
        /\ dl[i].saved # Null => dl[i].pc = "saved"

C3_Witness ==
    /\ Len(dl) = 2
    /\ dl[1].pc = "read_failed"
    /\ dl[2].pc = "open_failed"
    /\ pipeline = "dfs"

\* C4: the buffer handed to the save step is the concatenation of the
\* segments in arrival order and its length is the sum of their lengths.
C4_Reassembly ==
    [][\A i \in Sessions :
         (pipeline = "dfs" /\ Completed(i))
           => /\ dl'[i].saved = Some(Concat(dl[i].chunks))
              /\ Len(dl'[i].saved[1]) = SumLen(dl[i].chunks)]_vars

C4_Witness ==
    /\ pipeline = "dfs"
    /\ \E i \in Sessions : dl[i].pc = "saved" /\ dl[i].saved = Some(<<2, 3, 1>>)

\* C5 as stated: a download of a record with chunkCount >= 1 that completes
\* has last published an array of chunkCount entries, all 100, whatever the
\* length hint and the segments.
C5_Original ==
    [][\A i \in Sessions :
         (Completed(i) /\ HasChunkCount(dl[i].file))
           => /\ Len(dl[i].published) = ChunkCount(dl[i].file)
              /\ \A k \in 1..Len(dl[i].published) :
                    dl[i].published[k] = Hundred]_vars

\* C5 amended: when the bytes received reach the declared total, the first
\* chunkCount entries of the last published array are all 100; the array has
\* the larger of chunkCount and the length of the array displayed when the
\* download was initiated, hence exactly chunkCount entries for a download
\* initiated from the idle page.
C5_AllHundredWhenTotalReached ==
    [][\A i \in Sessions :
         (Completed(i) /\ HasChunkCount(dl[i].file)
            /\ dl[i].received >= dl[i].totalSize)
           => LET n == ChunkCount(dl[i].file) IN
              /\ Len(dl[i].published) = Max(n, Len(dl[i].captured))
              /\ \A k \in 1..n : dl[i].published[k] = Hundred
              /\ dl[i].captured = <<>> =>
                    dl[i].published = [k \in 1..n |-> Hundred]]_vars

C5_Witness ==
    /\ pipeline = "dfs"
    /\ \E i \in Sessions :
          /\ dl[i].pc = "saved"
          /\ dl[i].file = RecFour
          /\ dl[i].saved = Some(<<2, 3, 1>>)
          /\ dl[i].published = <<Hundred, Hundred, Hundred, Hundred>>

\* C6 as stated: every array a download of a record with a chunkCount has
\* published, while the download is in flight, has chunkCount slots that all
\* hold the same value, also when the download was initiated while an
\* earlier array was displayed.
C6_Original ==
    \A i \in Sessions :
        (pipeline = "dfs" /\ InFlight(dl[i]) /\ HasChunkCount(dl[i].file))
          => /\ Len(dl[i].published) = ChunkCount(dl[i].file)
             /\ \A j, k \in 1..Len(dl[i].published) :
                   dl[i].published[j] = dl[i].published[k]

\* C7: the overallProgress values one download computes, from the initial 0
\* on, never decrease and never exceed 100.
C7_ProgressMonotone ==
    /\ [](\A i \in Sessions :
            FracLeq(Zero, dl[i].overall) /\ FracLeq(dl[i].overall, Hundred))
    /\ [][\A i \in Sessions :
            (dl[i].pc = "fetch" => dl'[i].overall = Zero)
            /\ (dl[i].pc = "read" /\ dl'[i].pc = "read"
                  => FracLeq(dl[i].overall, dl'[i].overall))]_vars

C7_Witness ==
    \E i \in Sessions :
        /\ dl[i].pc = "read"
        /\ dl[i].chunks = <<<<1>>, <<2, 3>>>>
        /\ dl[i].hint = Some(<<"3">>)
        /\ dl[i].overall = Hundred

\* C8: with Content-Length absent, "0" or not a number the declared total is
\* 1; the total is never 0 (no division by zero), and the reported value is
\* 100 from the first non-empty segment on (0 before it).
NoUsableHint(h) == h = Null \/ Number(h).nan \/ Number(h).v = 0

C8_SentinelTotal ==
    \A i \in Sessions :
        dl[i].pc = "read"
          => /\ dl[i].totalSize >= 1
             /\ NoUsableHint(dl[i].hint)
                  => /\ dl[i].totalSize = 1
                     /\ dl[i].received >= 1 => dl[i].overall = Hundred
                     /\ dl[i].received = 0 => dl[i].overall = Zero

C8_Witness ==
    \E i \in Sessions :
        /\ dl[i].pc = "read"
        /\ dl[i].hint = Some(<<"x">>)
        /\ dl[i].chunks = <<<<>>, <<1>>>>
        /\ dl[i].overall = Hundred

\* C9 as stated: a download that received its declared total and completes
\* has last published [100] when the record has no chunkCount, and four
\* entries of 100 when chunkCount = 4 (initiated from the idle page).
C9_Original ==
    [][\A i \in Sessions :
         (pipeline = "dfs" /\ Completed(i) /\ dl[i].captured = <<>>
            /\ dl[i].received >= dl[i].totalSize)
           => /\ ~HasChunkCount(dl[i].file) => dl[i].published = <<Hundred>>
              /\ dl[i].file = RecFour
                   => dl[i].published = [k \in 1..4 |-> Hundred]]_vars

\* C10: a submit with no file selected sends no request, starts no call and
\* changes no state variable of the page, on either page.
C10_SubmitWithoutFile ==
    [][(submits' # submits /\ selectedFile = Null)
         => UNCHANGED <<fileList, selectedFile, uploading, downloadProgress,
                        downloadingFile, downloadTime, errorMessage,
                        requests, mount, up, dels, dl>>]_vars

C10_Witness ==
    /\ submits = 1
    /\ requests.upload = 0
    /\ selectedFile = Null
    /\ errorMessage = "Error fetching file list"

\* C11: uploading is true exactly while a handleUploadSubmit call is in
\* flight, and every such call eventually resets it to false, whichever way
\* the call ends (success, non-success status, rejected request, failing
\* refresh).
C11_UploadingResets ==
    /\ [](uploading <=> up # "idle")
    /\ (uploading ~> ~uploading)

\* An upload went through to its refresh, and the flag is back to false.
C11_Witness ==
    /\ requests.upload = 1
    /\ requests.delete = 0
    /\ requests.list = 2
    /\ up = "idle"
    /\ ~uploading

\* C12: the step in which a delete call fails (rejected request, non-success
\* status, unreadable answer) sends no list request, leaves fileList as it
\* was and sets the message to 'Delete failed'; the failed call does nothing
\* afterwards.
C12_DeleteFailureLeavesCatalog ==
    [][\A i \in 1..Len(dels) :
          /\ (dels[i].pc \in {"fetch", "json"} /\ dels'[i].pc = "failed")
                => /\ fileList' = fileList
                   /\ requests'.list = requests.list
                   /\ errorMessage' = "Delete failed"
          /\ (dels[i].pc = "failed") => (dels'[i] = dels[i])]_vars

\* A delete has failed and the record it was asked to delete is still listed.
C12_Witness ==
    \E i \in 1..Len(dels) :
        /\ dels[i].pc = "failed"
        /\ errorMessage = "Delete failed"
        /\ \E k \in 1..Len(fileList) : fileList[k].id = dels[i].id

\* C13: one list request is sent at startup; afterwards the number of list
\* requests sent grows by exactly one in each step in which an upload or a
\* delete call gets past its answer (res.ok, res.json()) and reaches
\* fetchFiles, and in no other step.
UploadSucceeds == up = "json" /\ up' = "list_fetch"
DeleteSucceeds(i) == dels[i].pc = "json" /\ dels'[i].pc = "list_fetch"
Successes ==
    (IF UploadSucceeds THEN 1 ELSE 0)
      + Cardinality({i \in 1..Len(dels) : DeleteSucceeds(i)})

C13_RefreshOnlyAfterSuccess ==
    /\ requests.list = 1
    /\ [][requests'.list = requests.list + Successes]_vars

\* Of two mutations one failed and one succeeded: two list requests have been
\* sent, the one at startup and the one after the success.
C13_Witness ==
    /\ requests.list = 2
    /\ requests.upload + requests.delete = 2
    /\ \/ \E i \in 1..Len(dels) : dels[i].pc = "failed"
       \/ errorMessage = "Upload failed"
    /\ \/ \E i \in 1..Len(dels) :
             dels[i].pc \in {"list_fetch", "list_json", "done"}
       \/ up \in {"list_fetch", "list_json"}

\* C14: fileList is always the initial empty list or one whole listing that a
\* list response delivered; a fetchFiles call that ends at its request
\* (rejected, or non-success status) leaves fileList as it was and sets the
\* message to 'Error fetching file list', and one that ends at its answer
\* either installs the listing it was given or does the same.
ListFailsAtRequest ==
    \/ mount = "list_fetch" /\ mount' = "done"
    \/ up = "list_fetch" /\ up' = "idle"
    \/ \E i \in 1..Len(dels) : dels[i].pc = "list_fetch" /\ dels'[i].pc = "done"

ListEndsAtAnswer ==
    \/ mount = "list_json" /\ mount' = "done"
    \/ up = "list_json" /\ up' = "idle"
    \/ \E i \in 1..Len(dels) : dels[i].pc = "list_json" /\ dels'[i].pc = "done"

ListFailureHandled ==
    fileList' = fileList /\ errorMessage' = "Error fetching file list"

C14_MirrorIsSnapshot ==
    /\ [](fileList = <<>> \/ fileList \in Listings(pipeline))
    /\ [][/\ ListFailsAtRequest => ListFailureHandled
          /\ ListEndsAtAnswer =>
                \/ ListFailureHandled
                \/ /\ fileList' = refreshes'.loaded
                   /\ fileList' \in Listings(pipeline)
                   /\ errorMessage' = errorMessage
          /\ (fileList' # fileList) => ListEndsAtAnswer]_vars

\* A listing was installed, and a later list request failed and left it.
C14_Witness ==
    /\ fileList # <<>>
    /\ errorMessage = "Error fetching file list"
    /\ requests.list = 2
    /\ mount = "done"
    /\ up = "idle"
    /\ \A i \in 1..Len(dels) : dels[i].pc \in {"done", "failed"}

\* C15: no download that has saved leaves the object URL it created
\* unreleased.
C15_Original ==
    \A i \in Sessions : dl[i].pc = "saved" => dl[i].url # "live"

\* C16: on the segmented page each download call moves from requesting
\* ("fetch") to streaming ("read") to its end, never backwards and never past
\* streaming; it ends either by completing (elapsed time, then save) when the
\* stream signals its end, or by failing; a call that has ended does nothing
\* more, so time and save happen at most once per call; the elapsed time is
\* set and an artifact is saved only in a completing step.
PhaseStep(from, to) ==
    \/ from = to
    \/ from = "fetch" /\ to \in {"read", "open_failed"}
    \/ from = "read" /\ to \in {"saved", "save_failed", "read_failed"}

Completing(i) ==
    i \in Sessions /\ dl[i].pc = "read" /\ dl'[i].pc \in {"saved", "save_failed"}

C16_PhaseOrder ==
    [][pipeline = "dfs" =>
         /\ \A i \in Sessions :
               /\ PhaseStep(dl[i].pc, dl'[i].pc)
               /\ ~InFlight(dl[i]) => dl'[i] = dl[i]
               /\ dl[i].pc = "fetch" => dl[i].reads = 0
               /\ (dl[i].saved = Null /\ dl'[i].saved # Null) => Completed(i)
         /\ (downloadTime' # Null /\ downloadTime' # downloadTime)
               => \E i \in Sessions : Completing(i)]_vars

\* A download has gone through requesting, two segments of streaming, and
\* completed: its time is on display and its artifact saved.
C16_Witness ==
    /\ pipeline = "dfs"
    /\ \E i \in Sessions :
          /\ dl[i].pc = "saved"
          /\ dl[i].reads = 2
          /\ dl[i].saved # Null
    /\ downloadTime # Null
    /\ downloadingFile = Null

\* C17: when a download is started while another is in flight, the active
\* record becomes the new one and the progress array becomes zeros, one per
\* chunk of the new record; the calls already in flight are left as they are;
\* and every segment any call receives is published to the one progress
\* array, whichever record is the active one.
Overlapping ==
    /\ pipeline = "dfs"
    /\ Len(dl') = Len(dl) + 1
    /\ \E a \in Sessions : InFlight(dl[a])

C17_SecondDownloadReplaces ==
    [][/\ Overlapping =>
            LET B == dl'[Len(dl')].file IN
            /\ downloadingFile' = Some(B)
            /\ HasChunkCount(B) =>
                  downloadProgress' = [k \in 1..ChunkCount(B) |-> Zero]
            /\ \A a \in Sessions : dl'[a] = dl[a]
       /\ \A i \in Sessions :
            (dl[i].pc = "read" /\ dl'[i].reads = dl[i].reads + 1)
               => downloadProgress' = dl'[i].published]_vars

\* B was started while A was in flight and before A's first segment (B
\* captured A's zeros); since then A has published a non-zero value and B a
\* segment too, and both are still streaming.
C17_Witness ==
    /\ Len(dl) = 2
    /\ dl[1].pc = "read" /\ dl[2].pc = "read"
    /\ dl[1].file # dl[2].file
    /\ downloadingFile = Some(dl[2].file)
    /\ dl[2].captured # <<>> /\ dl[2].captured[1] = Zero
    /\ dl[1].reads = 1
    /\ dl[1].published # <<>> /\ dl[1].published[1] # Zero
    /\ dl[2].reads = 1
    /\ downloadProgress = dl[1].published

\* C18 as stated: once no fetchFiles call is in flight, fileList is the
\* listing that was returned to the call started last.
NoRefreshInFlight ==
    /\ mount = "done"
    /\ up \notin {"list_fetch", "list_json"}
    /\ \A i \in 1..Len(dels) : dels[i].pc \notin {"list_fetch", "list_json"}

C18_Original ==
    (NoRefreshInFlight /\ refreshes.listing # Null)
        => fileList = refreshes.listing[1]

\* C18, amended: fileList is always the listing of the list answer that was
\* processed last (the initial empty list before any), whichever call it was
\* returned to.
C18_LastAnswerWins == fileList = refreshes.loaded

\* All refreshes are over; the call started last was given one listing, and
\* fileList holds another, delivered later to a call started earlier.
C18_Witness ==
    /\ NoRefreshInFlight
    /\ refreshes.listing # Null
    /\ fileList # refreshes.listing[1]
    /\ fileList = refreshes.loaded

\* C19 as stated: while some download of the segmented page is requesting or
\* streaming, the active record is non-null and the progress array non-empty
\* (downloads of records that carry a chunk count).
C19_Original ==
    /\ pipeline = "dfs"
    /\ \A i \in Sessions : HasChunkCount(dl[i].file)
    /\ \E i \in Sessions : InFlight(dl[i])
    => (downloadingFile # Null /\ downloadProgress # <<>>)

\* C19, amended: the end of any download call clears the active record and
\* the progress array, whichever record is the active one, and nothing else
\* nulls the active record; while the only download started so far is in
\* flight, the active record is its record and, if the record carries a chunk
\* count, the progress array is non-empty.
C19_ClearedByAnyEnd ==
    /\ [](pipeline = "dfs" /\ Len(dl) = 1 /\ InFlight(dl[1])
            => /\ downloadingFile = Some(dl[1].file)
               /\ HasChunkCount(dl[1].file) => downloadProgress # <<>>)
    /\ [][pipeline = "dfs" =>
            /\ \A i \in Sessions :
                  Ended(i) => (downloadingFile' = Null /\ downloadProgress' = <<>>)
            /\ (downloadingFile # Null /\ downloadingFile' = Null)
                  => \E i \in Sessions : Ended(i)]_vars

\* Two downloads of different records overlapped; the first has ended and
\* cleared the tracked session while the second, the one it tracked, is still
\* streaming.
C19_Witness ==
    /\ Len(dl) = 2
    /\ dl[1].file # dl[2].file
    /\ ~InFlight(dl[1])
    /\ dl[2].pc = "read"
    /\ dl[2].captured # <<>>
    /\ downloadingFile = Null
    /\ downloadProgress = <<>>

\* C20: a download answered with a non-success status saves nothing.
C20_Original ==
    \A i \in Sessions : ~dl[i].ok => dl[i].saved = Null

====
